---- MODULE Spec2Model ----
(***************************************************************************)
(* miniflow: a local workflow orchestrator.  Steps are shell commands      *)
(* ordered by a dependency graph; every command-line invocation rebuilds   *)
(* the Flow from the workflow file and the persisted snapshot              *)
(* (_miniflow/state.json), works on it and writes the snapshot back.       *)
(*                                                                         *)
(* The model follows src/model.ts (Step, Flow, the clean() propagation)    *)
(* and src/miniflow.ts (Context, runStep, runLoop, cmdRun).  A runStep     *)
(* task is an async function: it is cut at its awaits, and the tasks of    *)
(* one invocation interleave at those points only, as they do on the one   *)
(* JavaScript thread.                                                      *)
(***************************************************************************)
EXTENDS Integers, Sequences, FiniteSets, TLC

\* ------------------------------------------------------------------ bounds

\* most runStep tasks (launches) in one behaviour; they number the StepRuns
MaxLaunches == 4
\* most command-line invocations in one behaviour
MaxInvocations == 2
\* most launches, and invocations, of the one-step workflow: enough for a
\* run history to outgrow MAX_RUNS_TO_RETAIN more than once
MaxRetentionLaunches == 12

\* ------------------------------------------------------- program constants

MAX_RUNS_TO_RETAIN == 10

\* enum StepState
StepState ==
    {"none", "waitingForRun", "waitingForDep", "depFailed",
     "succeeded", "running", "failed", "disabled"}

\* Step.prevState is optional: Undefined stands for the missing field
Undefined == "undefined"

\* ------------------------------------------------------------ the workflows

\* The workflow files of the model: steps in file order, each step's deps
\* array.  Chain: b needs a, c needs b.  Fork: b and c need a.  Join (c is
\* declared first): c needs a and b.
ChainFlow ==
    [steps |-> <<"a", "b", "c">>,
     deps  |-> [a |-> <<>>, b |-> <<"a">>, c |-> <<"b">>]]

ForkFlow ==
    [steps |-> <<"a", "b", "c">>,
     deps  |-> [a |-> <<>>, b |-> <<"a">>, c |-> <<"a">>]]

JoinFlow ==
    [steps |-> <<"c", "a", "b">>,
     deps  |-> [a |-> <<>>, b |-> <<>>, c |-> <<"a", "b">>]]

Flows == {ChainFlow, ForkFlow, JoinFlow}

\* A workflow file with one step and no dependency: every `run` that finds
\* the step failed launches it again.
SoloFlow == [steps |-> <<"a">>, deps |-> [a |-> <<>>]]

\* --------------------------------------------------------------- variables

VARIABLES
    flow,        \* the Flow built from the workflow file: steps and deps
    state,       \* Step.state of every step
    prevState,   \* Step.prevState
    isDirty,     \* Step.isDirty
    runs,        \* Step.runs, most recent first: [start, exit] records
    ctxState,    \* Context.state, the StateJson held in memory
    disk,        \* the contents of _miniflow/state.json
    tasks,       \* the runStep calls of this invocation, in launch order
    pending,     \* Context.pending: the tasks pushed and not yet collected
    awaiting,    \* the batch cmdRun awaits in Context.waitAll
    mainWrite,   \* the write of cmdRun's un-awaited ctx.save(), if in flight
    mainpc,      \* "idle": no process; "wait": cmdRun in its wait loop
    exitCode,    \* the exit status of the last invocation
    exitAt,      \* where it ended: "args", "nothing", "end" or "kill"
    clock,       \* number of launches so far: the start time of a StepRun
    invocations, \* number of invocations so far
    loaded,      \* Step.state of every step as this invocation loaded it
    launched,    \* the steps this invocation has called runStep for
    resumed,     \* TRUE when the invocation before this one was killed
    before,      \* the steps' fields before the last flow-wide clean
    flowToml,    \* the parsed workflow file handed to the Flow constructor
    error,       \* the Error the last construction or command threw, if any
    command      \* the command line of the last reset/set/disable/enable

vars ==
    <<flow, state, prevState, isDirty, runs, ctxState, disk, tasks, pending,
      awaiting, mainWrite, mainpc, exitCode, exitAt, clock, invocations,
      loaded, launched, resumed, before, flowToml, error, command>>

\* ------------------------------------------------------------- Flow, Step

Range(seq) == {seq[i] : i \in DOMAIN seq}

Steps == Range(flow.steps)

\* the launches and invocations explored in one behaviour
LaunchLimit == IF flow = SoloFlow THEN MaxRetentionLaunches ELSE MaxLaunches

InvocationLimit ==
    IF flow = SoloFlow THEN MaxRetentionLaunches ELSE MaxInvocations

\* function ancestors(step): accum adds every dep not seen yet and descends
RECURSIVE accum(_, _, _)
accum(acc, step, i) ==
    IF i > Len(flow.deps[step]) THEN acc
    ELSE LET d == flow.deps[step][i]
         IN IF d \in acc THEN accum(acc, step, i + 1)
            ELSE accum(accum(acc \cup {d}, d, 1), step, i + 1)

ancestors_directOnly(step) == Range(flow.deps[step])

ancestors(step) == accum({}, step, 1)

\* step.descendants = steps.filter(s => s.ancestors.has(step))
descendants(step) == {s \in Steps : step \in ancestors(s)}

\* The mutable fields of the steps that transition/clean work on.
Mem == [state |-> state, prevState |-> prevState, isDirty |-> isDirty]

\* Step.transition
transition_noEarlyReturn(m, s, st) ==
    [m EXCEPT !.prevState[s] = m.state[s],
              !.state[s] = st,
              !.isDirty[s] = TRUE]

transition_notDirty(m, s, st) ==
    IF st = m.state[s] THEN m
    ELSE [m EXCEPT !.prevState[s] = m.state[s],
                   !.state[s] = st]

transition(m, s, st) ==
    IF st = m.state[s] THEN m
    ELSE [m EXCEPT !.prevState[s] = m.state[s],
                   !.state[s] = st,
                   !.isDirty[s] = TRUE]

\* transition(st) on every step of a collection, one after the other
RECURSIVE transitionEach(_, _, _)
transitionEach(m, seq, st) ==
    IF seq = <<>> THEN m
    ELSE transitionEach(transition(m, Head(seq), st), Tail(seq), st)

\* the steps of a set, in flow.steps order (a filter of flow.steps)
RECURSIVE filterSteps(_, _)
filterSteps(S, i) ==
    IF i > Len(flow.steps) THEN <<>>
    ELSE (IF flow.steps[i] \in S THEN <<flow.steps[i]>> ELSE <<>>)
         \o filterSteps(S, i + 1)

\* Step.clean lines 99-110: the states clean leaves alone
keepsState_noSucceeded(st) == st \in {"failed", "disabled", "running"}

keepsState(st) == st \in {"failed", "disabled", "running", "succeeded"}

\* Step.clean lines 111-112: some dep is failed or dependency-failed
hasFailedDep_directOnly(depStates) == "failed" \in depStates

hasFailedDep(depStates) == "failed" \in depStates \/ "depFailed" \in depStates

\* Step.clean lines 116-119: some dep is still on its way, or disabled
hasUnfinishedDep(depStates) ==
    \/ "running" \in depStates
    \/ "waitingForDep" \in depStates
    \/ "waitingForRun" \in depStates
    \/ "disabled" \in depStates

\* Step.clean lines 96-137: the branch clean takes on a dirty step, given
\* its deps' states
cleanCase_someSucceeded(m, s) ==
    LET depStates == {m.state[flow.deps[s][i]] : i \in DOMAIN flow.deps[s]}
    IN  IF keepsState(m.state[s]) THEN m
        ELSE IF hasFailedDep(depStates)
            THEN transition(m, s, "depFailed")
        ELSE IF hasUnfinishedDep(depStates)
            THEN transition(m, s, "waitingForDep")
        ELSE IF Len(flow.deps[s]) = 0 /\ m.state[s] = "none"
            THEN transition(m, s, "waitingForRun")
        ELSE IF Len(flow.deps[s]) = 0
            THEN transition(m, s, m.state[s])
        ELSE IF \E st \in depStates : st = "succeeded"
            THEN transition(m, s, "waitingForRun")
        ELSE m

cleanCase_unfinishedFirst(m, s) ==
    LET depStates == {m.state[flow.deps[s][i]] : i \in DOMAIN flow.deps[s]}
    IN  IF keepsState(m.state[s]) THEN m
        ELSE IF hasUnfinishedDep(depStates)
            THEN transition(m, s, "waitingForDep")
        ELSE IF hasFailedDep(depStates)
            THEN transition(m, s, "depFailed")
        ELSE IF Len(flow.deps[s]) = 0 /\ m.state[s] = "none"
            THEN transition(m, s, "waitingForRun")
        ELSE IF Len(flow.deps[s]) = 0
            THEN transition(m, s, m.state[s])
        ELSE IF \A st \in depStates : st = "succeeded"
            THEN transition(m, s, "waitingForRun")
        ELSE m

cleanCase(m, s) ==
    LET depStates == {m.state[flow.deps[s][i]] : i \in DOMAIN flow.deps[s]}
    IN  IF keepsState(m.state[s]) THEN m
        ELSE IF hasFailedDep(depStates)
            THEN transition(m, s, "depFailed")
        ELSE IF hasUnfinishedDep(depStates)
            THEN transition(m, s, "waitingForDep")
        ELSE IF Len(flow.deps[s]) = 0 /\ m.state[s] = "none"
            THEN transition(m, s, "waitingForRun")
        ELSE IF Len(flow.deps[s]) = 0
            THEN transition(m, s, m.state[s])
        ELSE IF \A st \in depStates : st = "succeeded"
            THEN transition(m, s, "waitingForRun")
        ELSE m

\* Step.clean lines 96-139: the step's own decision, then isDirty = false
cleanSelf_flagFirst(m, s) == cleanCase([m EXCEPT !.isDirty[s] = FALSE], s)

cleanSelf(m, s) == [cleanCase(m, s) EXCEPT !.isDirty[s] = FALSE]

Step_clean_selfOnly(m, s) == IF ~m.isDirty[s] THEN m ELSE cleanSelf(m, s)

\* Step.clean: gated by isDirty; cleans the deps first, in deps order
RECURSIVE Step_clean(_, _), cleanDeps(_, _, _)
Step_clean(m, s) ==
    IF ~m.isDirty[s] THEN m
    ELSE cleanSelf(cleanDeps(m, s, 1), s)

cleanDeps(m, s, i) ==
    IF i > Len(flow.deps[s]) THEN m
    ELSE cleanDeps(Step_clean(m, flow.deps[s][i]), s, i + 1)

\* Flow.clean: Step.clean on every step, in flow.steps order
RECURSIVE cleanFrom(_, _)
cleanFrom(m, i) ==
    IF i > Len(flow.steps) THEN m
    ELSE cleanFrom(Step_clean(m, flow.steps[i]), i + 1)

Flow_clean(m) == cleanFrom(m, 1)

\* Flow.update: upsert of the current steps into a StateJson
Flow_update_currentOnly(stateJson, m, r) ==
    [n \in Steps |->
        [state |-> m.state[n], prevState |-> m.prevState[n], runs |-> r[n]]]

Flow_update(stateJson, m, r) ==
    [n \in (DOMAIN stateJson) \cup Steps |->
        IF n \in Steps
            THEN [state |-> m.state[n], prevState |-> m.prevState[n],
                  runs |-> r[n]]
            ELSE stateJson[n]]

\* new Step(name, stepToml, stateJson.steps[name]), for every step
Step_state(snap) ==
    [s \in Steps |-> IF s \in DOMAIN snap THEN snap[s].state ELSE "none"]

Step_prevState(snap) ==
    [s \in Steps |-> IF s \in DOMAIN snap THEN snap[s].prevState ELSE Undefined]

Step_runs(snap) ==
    [s \in Steps |-> IF s \in DOMAIN snap THEN snap[s].runs ELSE <<>>]

\* main: loadState, loadFlow (the constructor sets isDirty = state == none)
\* and the flow.clean() the command dispatch runs before the command
loadFlow(snap) ==
    Flow_clean([state     |-> Step_state(snap),
                prevState |-> Step_prevState(snap),
                isDirty   |-> [s \in Steps |-> Step_state(snap)[s] = "none"]])

\* ------------------------------------------------------- Context, runStep

\* Context.save, up to its await: flow.update(this.state); the text handed
\* to Deno.writeTextFile is JSON.stringify(this.state) at that moment
Context_save_noUpdate(m, r) == ctxState

Context_save(m, r) == Flow_update(ctxState, m, r)

\* runLoop: a runStep call for every step that is waitingForRun now, pushed
\* to ctx.pending; each call runs up to its first await (ensureDir) at once
waitingForRunSteps(m) == filterSteps({s \in Steps : m.state[s] = "waitingForRun"}, 1)

newTasks(m) ==
    [i \in 1..Len(waitingForRunSteps(m)) |->
        [step |-> waitingForRunSteps(m)[i], pc |-> "ensureDir",
         run |-> clock + i, wbuf |-> <<>>]]

runLoop(m, done) ==
    /\ clock + Len(newTasks(m)) <= LaunchLimit
    /\ tasks' = done \o newTasks(m)
    /\ clock' = clock + Len(newTasks(m))
    /\ launched' = launched \cup Range(waitingForRunSteps(m))

\* the tasks runLoop has just pushed: their indices in tasks'
pushed(m, done) == (Len(done) + 1)..(Len(done) + Len(newTasks(m)))

SetMem(m) ==
    /\ state' = m.state
    /\ prevState' = m.prevState
    /\ isDirty' = m.isDirty

\* cmdRun, lines 300-311: the failed steps and their descendants go to none
RECURSIVE resetFailed(_, _)
resetFailed(m, failedSteps) ==
    IF failedSteps = <<>> THEN m
    ELSE LET f == Head(failedSteps)
             m1 == transition(m, f, "none")
             m2 == transitionEach(m1, filterSteps(descendants(f), 1), "none")
         IN  resetFailed(m2, Tail(failedSteps))

failedStepsOf_finished(m) ==
    filterSteps({s \in Steps : m.state[s] \in {"failed", "succeeded"}}, 1)

failedStepsOf(m) == filterSteps({s \in Steps : m.state[s] = "failed"}, 1)

\* the steps as cmdRun leaves them before it looks for work
afterReset_skip(m) == m

afterReset(m) ==
    IF failedStepsOf(m) = <<>> THEN m
    ELSE Flow_clean(resetFailed(m, failedStepsOf(m)))

\* Deno.exit: the process ends; a write still in flight may or may not have
\* reached the file
ExitProcess(code, at, inFlight) ==
    /\ mainpc' = "idle"
    /\ exitCode' = code
    /\ exitAt' = at
    /\ pending' = {}
    /\ awaiting' = {}
    /\ mainWrite' = <<>>
    /\ \/ disk' = disk
       \/ \E w \in Range(inFlight) : disk' = w

\* `miniflow run [args]`: main builds the Context and calls cmdRun, which
\* runs to its first await (or to Deno.exit)
cmdRun(hasArgs) ==
    /\ mainpc = "idle"
    /\ invocations < InvocationLimit
    /\ invocations' = invocations + 1
    /\ resumed' = (exitAt = "kill")
    /\ UNCHANGED <<flowToml, error, command,
                   flow, before>>
    /\ LET m0 == loadFlow(disk)
           m1 == afterReset(m0)
           saved == IF failedStepsOf(m0) = <<>> THEN <<>>
                    ELSE <<Flow_update(disk, m1, Step_runs(disk))>>
       IN  /\ SetMem(m1)
           /\ runs' = Step_runs(disk)
           /\ loaded' = m0.state
           /\ ctxState' = IF saved = <<>> THEN disk ELSE saved[1]
           /\ IF hasArgs
                THEN /\ ExitProcess("1", "args", saved)
                     /\ tasks' = <<>>
                     /\ launched' = {}
                     /\ UNCHANGED clock
              ELSE IF waitingForRunSteps(m1) = <<>>
                THEN /\ ExitProcess("0", "nothing", saved)
                     /\ tasks' = <<>>
                     /\ launched' = {}
                     /\ UNCHANGED clock
              ELSE /\ launched' = Range(waitingForRunSteps(m1))
                   /\ clock + Len(newTasks(m1)) <= LaunchLimit
                   /\ tasks' = newTasks(m1)
                   /\ clock' = clock + Len(newTasks(m1))
                   /\ mainpc' = "wait"
                   /\ exitCode' = "none"
                   /\ exitAt' = "none"
                   /\ pending' = {}
                   /\ awaiting' = DOMAIN newTasks(m1)
                   /\ mainWrite' = saved
                   /\ disk' = disk

\* the write of cmdRun's un-awaited save reaches the file
MainWriteDone ==
    /\ mainpc = "wait"
    /\ mainWrite # <<>>
    /\ disk' = mainWrite[1]
    /\ mainWrite' = <<>>
    /\ UNCHANGED <<flowToml, error, command,
                   flow, before, resumed, state, prevState, isDirty, runs,
                   ctxState, tasks, pending, awaiting, mainpc, exitCode,
                   exitAt, clock, invocations, loaded, launched>>

Alive(i) == mainpc = "wait" /\ i \in DOMAIN tasks

\* runStep lines 221-228: evict while the history is too long (one await
\* per eviction), then ctx.save()
evictOrSave_noSave(i, m, r) ==
    /\ runs' = r
    /\ tasks' = [tasks EXCEPT ![i].pc = "script"]
    /\ UNCHANGED ctxState

evictOrSave(i, m, r) ==
    LET s == tasks[i].step
    IN  IF Len(r[s]) > MAX_RUNS_TO_RETAIN
          THEN /\ runs' = [r EXCEPT ![s] = SubSeq(r[s], 1, Len(r[s]) - 1)]
               /\ tasks' = [tasks EXCEPT ![i].pc = "rm"]
               /\ UNCHANGED ctxState
          ELSE /\ runs' = r
               /\ ctxState' = Context_save(m, r)
               /\ tasks' = [tasks EXCEPT ![i].pc = "save1",
                                         ![i].wbuf = Context_save(m, r)]

\* runStep lines 215-228: ensureDir returns; the step goes to running and
\* gets a new StepRun at the front of its history
runStep_start(i) ==
    /\ Alive(i)
    /\ tasks[i].pc = "ensureDir"
    /\ LET s == tasks[i].step
           m == transition(Mem, s, "running")
           r == [runs EXCEPT ![s] =
                    <<[start |-> tasks[i].run, exit |-> "none"]>> \o runs[s]]
       IN  /\ SetMem(m)
           /\ evictOrSave(i, m, r)
    /\ UNCHANGED <<flowToml, error, command,
                   flow, before, resumed, disk, pending, awaiting, mainWrite,
                   mainpc, exitCode, exitAt, clock, invocations, loaded,
                   launched>>

\* runStep line 224: Deno.remove of an evicted run's log file returns.  With
\* MaxLaunches below MAX_RUNS_TO_RETAIN no history of Spec gets that long, so
\* Next leaves this step out; NextRetention has it.
runStep_removed(i) ==
    /\ Alive(i)
    /\ tasks[i].pc = "rm"
    /\ evictOrSave(i, Mem, runs)
    /\ UNCHANGED <<flowToml, error, command,
                   flow, before, resumed, state, prevState, isDirty, disk,
                   pending, awaiting, mainWrite, mainpc, exitCode, exitAt,
                   clock, invocations, loaded, launched>>

\* runStep line 228: the save of the launch is on disk
runStep_saved(i) ==
    /\ Alive(i)
    /\ tasks[i].pc = "save1"
    /\ disk' = tasks[i].wbuf
    /\ tasks' = [tasks EXCEPT ![i].pc = "script", ![i].wbuf = <<>>]
    /\ UNCHANGED <<flowToml, error, command,
                   flow, before, resumed, state, prevState, isDirty, runs,
                   ctxState, pending, awaiting, mainWrite, mainpc, exitCode,
                   exitAt, clock, invocations, loaded, launched>>

\* runStep lines 230-261: the script is written and Deno.run spawns bash
runStep_spawn(i) ==
    /\ Alive(i)
    /\ tasks[i].pc = "script"
    /\ tasks' = [tasks EXCEPT ![i].pc = "proc"]
    /\ UNCHANGED <<flowToml, error, command,
                   flow, before, resumed, state, prevState, isDirty, runs,
                   ctxState, disk, pending, awaiting, mainWrite, mainpc,
                   exitCode, exitAt, clock, invocations, loaded, launched>>

\* run.exitCode = ...; run.endTimestamp = ...: on the task's own StepRun
endRun(r, s, start, exit) ==
    [r EXCEPT ![s] = [k \in DOMAIN r[s] |->
        IF r[s][k].start = start THEN [r[s][k] EXCEPT !.exit = exit]
        ELSE r[s][k]]]

\* runStep lines 264-276: the process exits; the step goes to succeeded or
\* failed and the snapshot is saved
runStep_exit(i, success) ==
    /\ Alive(i)
    /\ tasks[i].pc = "proc"
    /\ LET s == tasks[i].step
           r == endRun(runs, s, tasks[i].run, IF success THEN "ok" ELSE "fail")
           m == transition(Mem, s, IF success THEN "succeeded" ELSE "failed")
       IN  /\ SetMem(m)
           /\ runs' = r
           /\ ctxState' = Context_save(m, r)
           /\ tasks' = [tasks EXCEPT ![i].pc = "save2",
                                     ![i].wbuf = Context_save(m, r)]
    /\ UNCHANGED <<flowToml, error, command,
                   flow, before, resumed, disk, pending, awaiting, mainWrite,
                   mainpc, exitCode, exitAt, clock, invocations, loaded,
                   launched>>

\* for (let desc of step.descendants) desc.dirty()
dirtyDescendants_none(m, s) == m

dirtyDescendants(m, s) ==
    [m EXCEPT !.isDirty = [d \in Steps |-> m.isDirty[d] \/ d \in descendants(s)]]

\* runStep lines 278-283: the result is on disk; the descendants are marked
\* dirty, the flow is cleaned and saved again
runStep_propagate(i) ==
    /\ Alive(i)
    /\ tasks[i].pc = "save2"
    /\ disk' = tasks[i].wbuf
    /\ LET m == Flow_clean(dirtyDescendants(Mem, tasks[i].step))
       IN  /\ SetMem(m)
           /\ ctxState' = Context_save(m, runs)
           /\ tasks' = [tasks EXCEPT ![i].pc = "save3",
                                     ![i].wbuf = Context_save(m, runs)]
    /\ UNCHANGED <<flowToml, error, command,
                   flow, before, resumed, runs, pending, awaiting, mainWrite,
                   mainpc, exitCode, exitAt, clock, invocations, loaded,
                   launched>>

\* runStep lines 283-288: the propagated snapshot is on disk; runLoop
\* launches what is waitingForRun now and the task ends
runStep_finish(i) ==
    /\ Alive(i)
    /\ tasks[i].pc = "save3"
    /\ disk' = tasks[i].wbuf
    /\ LET done == [tasks EXCEPT ![i].pc = "done", ![i].wbuf = <<>>]
       IN  /\ runLoop(Mem, done)
           /\ pending' = pending \cup pushed(Mem, done)
    /\ UNCHANGED <<flowToml, error, command,
                   flow, before, resumed, state, prevState, isDirty, runs,
                   ctxState, awaiting, mainWrite, mainpc, exitCode, exitAt,
                   invocations, loaded>>

\* cmdRun lines 362-366: exit 1 if a step is failed, 0 otherwise
exitStatus_zero(m) == "0"

exitStatus(m) == IF \E s \in Steps : m.state[s] = "failed" THEN "1" ELSE "0"

\* cmdRun lines 355-366: the batch waitAll awaited has settled; collect the
\* next batch, or leave the loop and exit
cmdRun_waited ==
    /\ mainpc = "wait"
    /\ \A i \in awaiting : tasks[i].pc = "done"
    /\ IF pending # {}
         THEN /\ awaiting' = pending
              /\ pending' = {}
              /\ UNCHANGED <<disk, tasks, mainWrite, mainpc, exitCode,
                             exitAt>>
         ELSE /\ ExitProcess(exitStatus(Mem), "end", mainWrite)
              /\ tasks' = tasks
    /\ UNCHANGED <<flowToml, error, command,
                   flow, before, resumed, state, prevState, isDirty, runs,
                   ctxState, clock, invocations, loaded, launched>>

\* the miniflow process is killed (SIGKILL, power loss) while it runs
Kill ==
    /\ mainpc = "wait"
    /\ mainpc' = "idle"
    /\ exitCode' = "killed"
    /\ exitAt' = "kill"
    /\ tasks' = <<>>
    /\ pending' = {}
    /\ awaiting' = {}
    /\ mainWrite' = <<>>
    /\ UNCHANGED <<flowToml, error, command,
                   flow, before, resumed, state, prevState, isDirty, runs,
                   ctxState, disk, clock, invocations, loaded, launched>>

\* ----------------------------------------------------------- specification

\* DEFAULT_STATE: no snapshot yet; nothing is in memory before the first
\* invocation
Init ==
    /\ flow \in Flows
    /\ state = [s \in Steps |-> "none"]
    /\ prevState = [s \in Steps |-> Undefined]
    /\ isDirty = [s \in Steps |-> TRUE]
    /\ runs = [s \in Steps |-> <<>>]
    /\ ctxState = <<>>
    /\ disk = <<>>
    /\ tasks = <<>>
    /\ pending = {}
    /\ awaiting = {}
    /\ mainWrite = <<>>
    /\ mainpc = "idle"
    /\ exitCode = "none"
    /\ exitAt = "none"
    /\ clock = 0
    /\ invocations = 0
    /\ loaded = [s \in Steps |-> "none"]
    /\ launched = {}
    /\ resumed = FALSE
    /\ before = <<>>
    /\ flowToml = <<>>
    /\ error = <<>>
    /\ command = <<>>

Next ==
    \/ \E hasArgs \in BOOLEAN : cmdRun(hasArgs)
    \/ MainWriteDone
    \/ \E i \in DOMAIN tasks : runStep_start(i)
    \/ \E i \in DOMAIN tasks : runStep_saved(i)
    \/ \E i \in DOMAIN tasks : runStep_spawn(i)
    \/ \E i \in DOMAIN tasks, success \in BOOLEAN : runStep_exit(i, success)
    \/ \E i \in DOMAIN tasks : runStep_propagate(i)
    \/ \E i \in DOMAIN tasks : runStep_finish(i)
    \/ cmdRun_waited
    \/ Kill

Spec == Init /\ [][Next]_vars

\* ------------------------------------------------------- run to the end

\* a step of the invocation that is under way: a runStep task resumed after
\* an await, the exit of a spawned process, cmdRun resumed after waitAll
InvocationStep ==
    \/ \E i \in DOMAIN tasks : runStep_start(i)
    \/ \E i \in DOMAIN tasks : runStep_saved(i)
    \/ \E i \in DOMAIN tasks : runStep_spawn(i)
    \/ \E i \in DOMAIN tasks, success \in BOOLEAN : runStep_exit(i, success)
    \/ \E i \in DOMAIN tasks : runStep_propagate(i)
    \/ \E i \in DOMAIN tasks : runStep_finish(i)
    \/ cmdRun_waited

\* One `run` of a flow that has no snapshot, not killed
NextFirstRun ==
    \/ invocations = 0 /\ cmdRun(FALSE)
    \/ InvocationStep

\* The invocation does not stall: while an await can return or a spawned
\* process can exit, one of them does (Deno's event loop runs what is
\* ready; every spawned process exits).  Nothing obliges a user to start
\* the invocation.
FirstRunFairness == WF_vars(InvocationStep)

FirstRunSpec == Init /\ [][NextFirstRun]_vars /\ FirstRunFairness

\* ------------------------------------------------------- the run history

\* The one-step workflow run again and again: the step is launched once by
\* every `run` that finds it new or failed, so its history grows past
\* MAX_RUNS_TO_RETAIN and runStep evicts.  The process is not killed here.
InitRetention ==
    /\ flow = SoloFlow
    /\ state = [s \in Steps |-> "none"]
    /\ prevState = [s \in Steps |-> Undefined]
    /\ isDirty = [s \in Steps |-> TRUE]
    /\ runs = [s \in Steps |-> <<>>]
    /\ ctxState = <<>>
    /\ disk = <<>>
    /\ tasks = <<>>
    /\ pending = {}
    /\ awaiting = {}
    /\ mainWrite = <<>>
    /\ mainpc = "idle"
    /\ exitCode = "none"
    /\ exitAt = "none"
    /\ clock = 0
    /\ invocations = 0
    /\ loaded = [s \in Steps |-> "none"]
    /\ launched = {}
    /\ resumed = FALSE
    /\ before = <<>>
    /\ flowToml = <<>>
    /\ error = <<>>
    /\ command = <<>>

NextRetention ==
    \/ cmdRun(FALSE)
    \/ MainWriteDone
    \/ \E i \in DOMAIN tasks : runStep_start(i)
    \/ \E i \in DOMAIN tasks : runStep_removed(i)
    \/ \E i \in DOMAIN tasks : runStep_saved(i)
    \/ \E i \in DOMAIN tasks : runStep_spawn(i)
    \/ \E i \in DOMAIN tasks, success \in BOOLEAN : runStep_exit(i, success)
    \/ \E i \in DOMAIN tasks : runStep_propagate(i)
    \/ \E i \in DOMAIN tasks : runStep_finish(i)
    \/ cmdRun_waited

RetentionSpec == InitRetention /\ [][NextRetention]_vars

\* ------------------------------------------- the propagation on its own

\* Diamond: b and c need a, d needs b and c
DiamondFlow ==
    [steps |-> <<"a", "b", "c", "d">>,
     deps  |-> [a |-> <<>>, b |-> <<"a">>, c |-> <<"a">>, d |-> <<"b", "c">>]]

CleanFlows == Flows \cup {DiamondFlow}

\* Flow.clean() applied to a flow whose steps are in any states, with any
\* dirty flags; mainpc tells how often: "loaded", "cleaned", "recleaned"
InitClean ==
    /\ flow \in CleanFlows
    /\ state \in [Steps -> StepState]
    /\ prevState = [s \in Steps |-> Undefined]
    /\ isDirty \in [Steps -> BOOLEAN]
    /\ before = [state |-> state, prevState |-> prevState, isDirty |-> isDirty]
    /\ runs = [s \in Steps |-> <<>>]
    /\ ctxState = <<>>
    /\ disk = <<>>
    /\ tasks = <<>>
    /\ pending = {}
    /\ awaiting = {}
    /\ mainWrite = <<>>
    /\ mainpc = "loaded"
    /\ exitCode = "none"
    /\ exitAt = "none"
    /\ clock = 0
    /\ invocations = 0
    /\ loaded = state
    /\ launched = {}
    /\ resumed = FALSE
    /\ flowToml = <<>>
    /\ error = <<>>
    /\ command = <<>>

FlowClean ==
    /\ mainpc \in {"loaded", "cleaned"}
    /\ mainpc' = IF mainpc = "loaded" THEN "cleaned" ELSE "recleaned"
    /\ before' = Mem
    /\ SetMem(Flow_clean(Mem))
    /\ UNCHANGED <<flowToml, error, command,
                   flow, runs, ctxState, disk, tasks, pending, awaiting,
                   mainWrite, exitCode, exitAt, clock, invocations, loaded,
                   launched, resumed>>

NextClean == FlowClean

CleanSpec == InitClean /\ [][NextClean]_vars

\* ------------------------------------- reset, set, disable and enable

\* most reset/set/disable/enable invocations in one behaviour
MaxCommands == 2

\* StepToml.tags of the workflow files of the model: b and c carry tag g
tags(s) == IF s \in {"b", "c"} THEN {"g"} ELSE {}

\* the snapshot left by an older workflow file that had a step "old"
OldSnapshot ==
    [n \in {"old"} |->
        [state |-> "succeeded", prevState |-> "running",
         runs |-> <<[start |-> 0, exit |-> "ok"]>>]]

\* the snapshot `miniflow disable a` leaves on the chain when there was none
DisabledSnapshot ==
    [n \in {"a", "b", "c"} |->
        [state |-> IF n = "a" THEN "disabled" ELSE "waitingForDep",
         prevState |-> IF n = "a" THEN "waitingForRun" ELSE "none",
         runs |-> <<>>]]

\* the snapshot a `run` leaves on the chain when a succeeded and b failed
RanSnapshot ==
    [n \in {"a", "b", "c"} |->
        [state |-> CASE n = "a" -> "succeeded"
                     [] n = "b" -> "failed"
                     [] OTHER   -> "depFailed",
         prevState |-> IF n = "c" THEN "waitingForDep" ELSE "running",
         runs |-> CASE n = "a" -> <<[start |-> 1, exit |-> "ok"]>>
                    [] n = "b" -> <<[start |-> 2, exit |-> "fail"]>>
                    [] OTHER   -> <<>>]]

\* step names on the command line: a step, a tag, a name nothing matches
StepNames == {"a", "g", "zz"}

StepNameLists ==
    {<<>>} \cup {<<x>> : x \in StepNames}
           \cup {<<"a", y>> : y \in StepNames}
           \cup {<<x, "a">> : x \in StepNames}

\* state names on the command line of `set`; "bogus" is not a state
StateNames == StepState \cup {"bogus"}

\* new Flow(flowToml, stateJson): the steps as the constructors leave them
newFlow(snap) ==
    [state     |-> Step_state(snap),
     prevState |-> Step_prevState(snap),
     isDirty   |-> [s \in Steps |-> Step_state(snap)[s] = "none"]]

\* Flow.resolveSteps, line 277: the steps a name matches, by name or by tag
found(stepName) ==
    filterSteps({x \in Steps : x = stepName \/ stepName \in tags(x)}, 1)

\* Flow.resolveSteps: the matches of every name in turn; throws at the
\* first name that matches nothing
RECURSIVE resolveSteps_skipMissing(_)
resolveSteps_skipMissing(stepNames) ==
    IF stepNames = <<>> THEN [ok |-> TRUE, steps |-> <<>>]
    ELSE [ok |-> TRUE,
          steps |-> found(Head(stepNames))
                        \o resolveSteps_skipMissing(Tail(stepNames)).steps]

RECURSIVE resolveSteps(_)
resolveSteps(stepNames) ==
    IF stepNames = <<>> THEN [ok |-> TRUE, steps |-> <<>>]
    ELSE IF found(Head(stepNames)) = <<>>
        THEN [ok |-> FALSE,
              error |-> <<"couldn't find any steps for", Head(stepNames)>>]
    ELSE LET rest == resolveSteps(Tail(stepNames))
         IN  IF rest.ok
               THEN [ok |-> TRUE, steps |-> found(Head(stepNames)) \o rest.steps]
               ELSE rest

\* parseStepState: the StepState of a name, or an Error
parseStepState(s) ==
    IF s \in StepState THEN [ok |-> TRUE, state |-> s]
    ELSE [ok |-> FALSE, error |-> <<"invalid step state", s>>]

\* cmdReset lines 422-429: the steps, and unless --only their descendants,
\* go to none
resetSteps_onlyNamed(m, steps, only) == transitionEach(m, steps, "none")

resetSteps_cascading(m, steps, only) ==
    transitionEach(transitionEach(m, steps, "none"),
                   filterSteps(UNION {descendants(f) : f \in Range(steps)}, 1),
                   "none")

RECURSIVE resetSteps(_, _, _)
resetSteps(m, steps, only) ==
    IF steps = <<>> THEN m
    ELSE LET f == Head(steps)
             m1 == transition(m, f, "none")
             m2 == IF only THEN m1
                   ELSE transitionEach(m1, filterSteps(descendants(f), 1), "none")
         IN  resetSteps(m2, Tail(steps), only)

\* cmdEnable line 470: step.prevState ?? StepState.none
enableTarget_none(m, s) == "none"

enableTarget(m, s) ==
    IF m.prevState[s] = Undefined THEN "none" ELSE m.prevState[s]

\* cmdEnable lines 469-471
RECURSIVE enableSteps(_, _)
enableSteps(m, steps) ==
    IF steps = <<>> THEN m
    ELSE enableSteps(transition(m, Head(steps), enableTarget(m, Head(steps))),
                     Tail(steps))

\* main, lines 549-553: a new process loads the snapshot and builds the Flow
startCommand(name, args) ==
    /\ mainpc = "idle"
    /\ invocations < MaxCommands
    /\ invocations' = invocations + 1
    /\ command' = [name |-> name, args |-> args]
    /\ runs' = Step_runs(disk)
    /\ loaded' = loadFlow(disk).state
    /\ UNCHANGED <<flowToml, flow, resumed, tasks, pending, awaiting,
                   mainWrite, mainpc, clock, launched>>

\* the command's last lines: ctx.flow.clean(); await ctx.save(); then main
\* returns and the process ends with status 0
finishCommand(m) ==
    /\ before' = [state     |-> [s \in Steps |-> m.state[s]],
                  prevState |-> [s \in Steps |-> m.prevState[s]],
                  isDirty   |-> [s \in Steps |-> m.isDirty[s]]]
    /\ LET cleaned == Flow_clean(m)
           saved == Flow_update(disk, cleaned, Step_runs(disk))
       IN  /\ SetMem(cleaned)
           /\ ctxState' = saved
           /\ disk' = saved
    /\ error' = <<>>
    /\ exitCode' = "0"
    /\ exitAt' = "done"

\* the command ends before its loop: Deno.exit(1) on a usage error
\* (at = "usage"), or an Error caught by main, lines 597-599 (at = "error")
abortCommand(at, err) ==
    /\ before' = newFlow(disk)
    /\ SetMem(loadFlow(disk))
    /\ ctxState' = disk
    /\ disk' = disk
    /\ error' = err
    /\ exitCode' = "1"
    /\ exitAt' = at

\* `miniflow reset [--only] [step]...`
cmdReset(args) ==
    /\ startCommand("reset", args)
    /\ LET only == args # <<>> /\ Head(args) = "--only"
           stepNames == IF only THEN Tail(args) ELSE args
           r == IF stepNames # <<>> THEN resolveSteps(stepNames)
                ELSE [ok |-> TRUE, steps |-> flow.steps]
       IN  IF r.ok
             THEN finishCommand(resetSteps(loadFlow(disk), r.steps, only))
             ELSE abortCommand("error", r.error)

\* `miniflow disable [step]...`
cmdDisable(args) ==
    /\ startCommand("disable", args)
    /\ LET r == resolveSteps(args)
       IN  IF ~r.ok THEN abortCommand("error", r.error)
           ELSE IF r.steps = <<>> THEN abortCommand("usage", <<>>)
           ELSE finishCommand(transitionEach(loadFlow(disk), r.steps, "disabled"))

\* `miniflow enable [step]...`
cmdEnable(args) ==
    /\ startCommand("enable", args)
    /\ LET r == resolveSteps(args)
       IN  IF ~r.ok THEN abortCommand("error", r.error)
           ELSE IF r.steps = <<>> THEN abortCommand("usage", <<>>)
           ELSE finishCommand(enableSteps(loadFlow(disk), r.steps))

\* `miniflow set [state] [step]...`
cmdSet(args) ==
    /\ startCommand("set", args)
    /\ IF Len(args) < 2 THEN abortCommand("usage", <<>>)
       ELSE LET st == parseStepState(Head(args))
                r == resolveSteps(Tail(args))
            IN  IF ~st.ok THEN abortCommand("error", st.error)
                ELSE IF ~r.ok THEN abortCommand("error", r.error)
                ELSE finishCommand(transitionEach(loadFlow(disk), r.steps, st.state))

\* the flow is the chain or the join; the snapshot is missing, or was left
\* by an older workflow file, or (chain) by `miniflow disable a` or by a
\* `miniflow run`
InitCommand ==
    /\ flow \in {ChainFlow, JoinFlow}
    /\ disk \in {<<>>, OldSnapshot}
                \cup (IF flow = ChainFlow THEN {DisabledSnapshot, RanSnapshot}
                      ELSE {})
    /\ state = [s \in Steps |-> "none"]
    /\ prevState = [s \in Steps |-> Undefined]
    /\ isDirty = [s \in Steps |-> TRUE]
    /\ runs = [s \in Steps |-> <<>>]
    /\ ctxState = <<>>
    /\ tasks = <<>>
    /\ pending = {}
    /\ awaiting = {}
    /\ mainWrite = <<>>
    /\ mainpc = "idle"
    /\ exitCode = "none"
    /\ exitAt = "none"
    /\ clock = 0
    /\ invocations = 0
    /\ loaded = [s \in Steps |-> "none"]
    /\ launched = {}
    /\ resumed = FALSE
    /\ before = <<>>
    /\ flowToml = <<>>
    /\ error = <<>>
    /\ command = <<>>

NextCommand ==
    \/ \E names \in StepNameLists : cmdReset(names)
    \/ \E names \in StepNameLists : cmdReset(<<"--only">> \o names)
    \/ \E names \in StepNameLists : cmdDisable(names)
    \/ \E names \in StepNameLists : cmdEnable(names)
    \/ \E st \in StateNames, names \in StepNameLists :
          Len(names) < 2 /\ cmdSet(<<st>> \o names)
    \/ \E names \in StepNameLists : Len(names) < 2 /\ cmdSet(names)

CommandSpec == InitCommand /\ [][NextCommand]_vars

\* sequences of disable and enable commands only
NextToggle ==
    \/ \E names \in StepNameLists : cmdDisable(names)
    \/ \E names \in StepNameLists : cmdEnable(names)

ToggleSpec == InitCommand /\ [][NextToggle]_vars

\* `run` invocations among disable and enable commands on the chain, each
\* command naming one step or the tag
SessionNames == {"a", "b", "c", "g"}

InitSession ==
    /\ InitCommand
    /\ flow = ChainFlow
    /\ disk \in {<<>>, DisabledSnapshot, RanSnapshot}

NextSession ==
    \/ Next
    \/ \E n \in SessionNames : cmdDisable(<<n>>)
    \/ \E n \in SessionNames : cmdEnable(<<n>>)

SessionSpec == InitSession /\ [][NextSession]_vars

\* `run` invocations that are not killed among reset, set, disable and
\* enable commands on the chain, each command naming one step or the tag
NextAnyCommand ==
    \/ cmdRun(FALSE)
    \/ MainWriteDone
    \/ InvocationStep
    \/ \E n \in SessionNames : cmdDisable(<<n>>)
    \/ \E n \in SessionNames : cmdEnable(<<n>>)
    \/ \E n \in SessionNames : cmdReset(<<n>>)
    \/ \E n \in SessionNames : cmdReset(<<"--only", n>>)
    \/ \E st \in StateNames, n \in SessionNames : cmdSet(<<st, n>>)

AnyCommandSpec == InitSession /\ [][NextAnyCommand]_vars

\* ------------------------------------------------- the Flow constructor

\* The workflow files of the construction model declare the steps a, b, c
\* in that order.  A step's deps is an array of names (of steps, or "x",
\* which no step has), or a value that is not an array: a non-empty string
\* (truthy) or false (falsy, not iterable).  A key that is not allowed may
\* stand at top level or in step b.
TomlSteps == <<"a", "b", "c">>

DepNames == <<"a", "b", "c", "x">>

\* the array that lists the names of S in DepNames order
RECURSIVE arrayOf(_, _)
arrayOf(S, i) ==
    IF i > Len(DepNames) THEN <<>>
    ELSE (IF DepNames[i] \in S THEN <<DepNames[i]>> ELSE <<>>) \o arrayOf(S, i + 1)

DepsValues ==
    {[kind |-> "array", names |-> arrayOf(S, 1)] : S \in SUBSET Range(DepNames)}
        \cup {[kind |-> "string", names |-> <<>>],
              [kind |-> "false", names |-> <<>>]}

FlowTomls ==
    [steps   : {TomlSteps},
     deps    : [Range(TomlSteps) -> DepsValues],
     unknown : SUBSET {"toplevel", "b"}]

\* ensureOnlyKeys(obj, validKeys, where): throws when obj has other keys
ensureOnlyKeys(toml, where) ==
    IF where \in toml.unknown
      THEN <<<<"Unexpected key(s)", where>>>>
      ELSE <<>>

\* Flow constructor line 177 and, through new Step (line 180), Step
\* constructor line 46: the first ensureOnlyKeys that throws
RECURSIVE firstUnexpected(_, _)
firstUnexpected(toml, i) ==
    IF i = 0 THEN
        (IF ensureOnlyKeys(toml, "toplevel") # <<>>
           THEN ensureOnlyKeys(toml, "toplevel")
           ELSE firstUnexpected(toml, 1))
    ELSE IF i > Len(toml.steps) THEN <<>>
    ELSE IF ensureOnlyKeys(toml, toml.steps[i]) # <<>>
        THEN ensureOnlyKeys(toml, toml.steps[i])
    ELSE firstUnexpected(toml, i + 1)

\* lines 193-200: the deps of a step that resolve (step.deps), and an error
\* for every name that does not
RECURSIVE resolveDeps(_, _, _)
resolveDeps(toml, step, names) ==
    IF names = <<>> THEN [deps |-> <<>>, errors |-> <<>>]
    ELSE LET rest == resolveDeps(toml, step, Tail(names))
         IN  IF Head(names) \in Range(toml.steps)
               THEN [deps |-> <<Head(names)>> \o rest.deps, errors |-> rest.errors]
               ELSE [deps |-> rest.deps,
                     errors |-> <<<<"Dependency not found", step, Head(names)>>>>
                                   \o rest.errors]

\* lines 187-202: the loop over the steps.  A truthy value that is not an
\* array is an error of the list; a falsy one reaches the for-of, which
\* throws a TypeError when the value is not iterable
RECURSIVE linkDeps(_, _)
linkDeps(toml, i) ==
    IF i > Len(toml.steps)
      THEN [deps |-> [s \in {} |-> <<>>], errors |-> <<>>, typeError |-> FALSE]
    ELSE LET step == toml.steps[i]
             v == toml.deps[step]
             rest == linkDeps(toml, i + 1)
             r == resolveDeps(toml, step, v.names)
             mine == IF v.kind = "array" THEN r
                     ELSE IF v.kind = "string"
                       THEN [deps |-> <<>>,
                             errors |-> <<<<"step.deps must be an array", step>>>>]
                     ELSE [deps |-> <<>>, errors |-> <<>>]
         IN  IF v.kind = "false"
               THEN [deps |-> [s \in {} |-> <<>>], errors |-> <<>>, typeError |-> TRUE]
             ELSE [deps |-> [s \in {step} \cup DOMAIN rest.deps |->
                               IF s = step THEN mine.deps ELSE rest.deps[s]],
                   errors |-> mine.errors \o rest.errors,
                   typeError |-> rest.typeError]

\* checkCycles(step, seen), lines 204-214: the paths pushed to
\* cyclicalDepErrors; seen is the path from the step the search started at
RECURSIVE checkCycles_selfOnly(_, _, _), checkCycles(_, _, _), checkCyclesOfDeps(_, _, _, _)
checkCycles_selfOnly(d, step, seen) ==
    IF step \in Range(d[step]) THEN <<<<step, step>>>> ELSE <<>>

checkCycles(d, step, seen) ==
    IF step \in Range(seen) THEN <<seen \o <<step>>>>
    ELSE checkCyclesOfDeps(d, step, seen \o <<step>>, 1)

checkCyclesOfDeps(d, step, seen, i) ==
    IF i > Len(d[step]) THEN <<>>
    ELSE checkCycles(d, d[step][i], seen) \o checkCyclesOfDeps(d, step, seen, i + 1)

\* lines 215-217: checkCycles from every step
RECURSIVE cyclicalDepErrors(_, _, _)
cyclicalDepErrors(d, steps, i) ==
    IF i > Len(steps) THEN <<>>
    ELSE checkCycles(d, steps[i], <<>>) \o cyclicalDepErrors(d, steps, i + 1)

\* new Flow(flowToml, stateJson): the Error it throws, or the Flow
newFlowOf(toml) ==
    LET unexpected == firstUnexpected(toml, 0)
        linked == linkDeps(toml, 1)
        cycles == cyclicalDepErrors(linked.deps, toml.steps, 1)
        errors == linked.errors
                    \o (IF cycles # <<>>
                          THEN <<<<"Cyclical dependencies found", cycles>>>>
                          ELSE <<>>)
    IN  IF unexpected # <<>>
          THEN [ok |-> FALSE, error |-> [name |-> "Error", errors |-> unexpected]]
        ELSE IF linked.typeError
          THEN [ok |-> FALSE, error |-> [name |-> "TypeError", errors |-> <<>>]]
        ELSE IF errors # <<>>
          THEN [ok |-> FALSE, error |-> [name |-> "Error", errors |-> errors]]
        ELSE [ok |-> TRUE, flow |-> [steps |-> toml.steps, deps |-> linked.deps]]

\* loadFlow (miniflow.ts): the workflow file is parsed; no Flow yet
InitConstruct ==
    /\ flowToml \in FlowTomls
    /\ flow = <<>>
    /\ state = <<>>
    /\ prevState = <<>>
    /\ isDirty = <<>>
    /\ runs = <<>>
    /\ ctxState = <<>>
    /\ disk = <<>>
    /\ tasks = <<>>
    /\ pending = {}
    /\ awaiting = {}
    /\ mainWrite = <<>>
    /\ mainpc = "loadFlow"
    /\ exitCode = "none"
    /\ exitAt = "none"
    /\ clock = 0
    /\ invocations = 0
    /\ loaded = <<>>
    /\ launched = {}
    /\ resumed = FALSE
    /\ before = <<>>
    /\ error = <<>>
    /\ command = <<>>

\* loadFlow line 198, new Flow(flowToml, state): either the Flow is built,
\* every step none and dirty, or the Error reaches main, which exits 1
Construct ==
    /\ mainpc = "loadFlow"
    /\ LET r == newFlowOf(flowToml)
       IN  IF r.ok
             THEN /\ flow' = r.flow
                  /\ state' = [s \in Range(r.flow.steps) |-> "none"]
                  /\ prevState' = [s \in Range(r.flow.steps) |-> Undefined]
                  /\ isDirty' = [s \in Range(r.flow.steps) |-> TRUE]
                  /\ runs' = [s \in Range(r.flow.steps) |-> <<>>]
                  /\ mainpc' = "constructed"
                  /\ UNCHANGED <<error, exitCode, exitAt>>
             ELSE /\ error' = r.error
                  /\ mainpc' = "idle"
                  /\ exitCode' = "1"
                  /\ exitAt' = "error"
                  /\ UNCHANGED <<flow, state, prevState, isDirty, runs>>
    /\ UNCHANGED <<flowToml, command, before, resumed, ctxState, disk, tasks,
                   pending, awaiting, mainWrite, clock, invocations, loaded,
                   launched>>

NextConstruct == Construct

ConstructSpec == InitConstruct /\ [][NextConstruct]_vars

\* ------------------------------------------------------------------ claims

deps(s) == Range(flow.deps[s])

\* cmdRun has left its wait loop and exited
RunEnded == mainpc = "idle" /\ exitAt = "end"

\* cmdRun has exited, at "Nothing to do" or after its wait loop
RunExited == mainpc = "idle" /\ exitAt \in {"nothing", "end"}

Settled == {"succeeded", "failed", "depFailed"}

\* the exits of the StepRuns of step s
Exits(s) == {runs[s][k].exit : k \in DOMAIN runs[s]}

\* C1: during run, a step goes to running only while every one of its
\* declared dependencies is succeeded.
C1_RunningOnlyAfterDeps ==
    [][\A s \in Steps :
        (mainpc = "wait" /\ state[s] # "running" /\ state'[s] = "running")
            => \A d \in deps(s) : state[d] = "succeeded"]_vars

\* C2: a failed step does not stop the run.  When the run of a flow without
\* snapshot has ended, every step without a failed ancestor was launched and
\* is succeeded or failed; in the fork (b and c need a) where a and c exit
\* with success and b does not, it ends a succeeded, b failed, c succeeded.
C2_FailureNotFatal ==
    (RunEnded /\ invocations = 1) =>
        /\ \A s \in Steps :
              (\A x \in ancestors(s) : state[x] # "failed")
                  => s \in launched /\ state[s] \in {"succeeded", "failed"}
        /\ (/\ flow = ForkFlow
            /\ Exits("a") = {"ok"}
            /\ Exits("b") = {"fail"}
            /\ Exits("c") \subseteq {"ok"})
              => state = [a |-> "succeeded", b |-> "failed", c |-> "succeeded"]

C2_Witness ==
    /\ RunEnded
    /\ invocations = 1
    /\ flow = ForkFlow
    /\ state = [a |-> "succeeded", b |-> "failed", c |-> "succeeded"]
    /\ launched = {"a", "b", "c"}

\* C3: run exits with status 0 exactly when no step is failed at that
\* moment, and with status 1 when some step is failed.
C3_ExitStatus ==
    RunExited => (exitCode = "0" <=> \A s \in Steps : state[s] # "failed")

C3_Witness == RunEnded /\ exitCode = "1" /\ \E s \in Steps : state[s] = "failed"

\* C4: when cmdRun leaves its wait loop, no launched task is outstanding and
\* no step is in state running.
C4_DrainedAtExit ==
    RunEnded => /\ \A i \in DOMAIN tasks : tasks[i].pc = "done"
                /\ \A s \in Steps : state[s] # "running"

\* C5: a step that the invocation loads as succeeded, with no failed step
\* among its ancestors, is never launched by it and stays succeeded.
C5_NoRerunOfCompleted ==
    \A s \in Steps :
        (/\ invocations >= 1
         /\ loaded[s] = "succeeded"
         /\ \A x \in ancestors(s) : loaded[x] # "failed")
            => s \notin launched /\ state[s] = "succeeded"

C5_Witness ==
    /\ RunEnded
    /\ invocations = 2
    /\ \E s \in Steps :
          /\ loaded[s] = "succeeded"
          /\ \A x \in ancestors(s) : loaded[x] # "failed"
          /\ s \notin launched
    /\ \E s \in Steps : loaded[s] = "failed" /\ s \in launched

\* C6: a run that follows a killed invocation executes what had not
\* completed: when it has exited, every step is settled (succeeded, failed,
\* or dependency-failed) as after an uninterrupted run.
C6_ResumeSettles ==
    (RunExited /\ resumed) => \A s \in Steps : state[s] \in Settled

\* C7: run retries the failures.  cmdRun takes every step it loads as failed,
\* and every descendant of it, through none and propagates, so that none of
\* them is left failed, succeeded, disabled or running; a step that is
\* waitingForRun has a launch under way or a completion handler about to
\* call runLoop; and once run has exited, every step it loaded as failed
\* whose dependencies are all succeeded was launched by it.
C7_Reset ==
    \A s \in Steps :
        (loaded'[s] = "failed" \/ \E x \in ancestors(s) : loaded'[x] = "failed")
            => /\ ~keepsState(state'[s])
               /\ state'[s] = "none" \/ prevState'[s] = "none"
               /\ ~isDirty'[s]

C7_Pickup ==
    \A s \in Steps :
        (mainpc = "wait" /\ state[s] = "waitingForRun")
            => \E i \in DOMAIN tasks :
                  \/ tasks[i].step = s /\ tasks[i].pc = "ensureDir"
                  \/ tasks[i].pc = "save3"

C7_Launched ==
    RunExited =>
        \A s \in Steps :
            (loaded[s] = "failed" /\ \A d \in deps(s) : state[d] = "succeeded")
                => s \in launched

C7_RetriesFailures ==
    /\ [][invocations' # invocations => C7_Reset]_vars
    /\ [](C7_Pickup /\ C7_Launched)

C7_Witness ==
    /\ RunEnded
    /\ invocations = 2
    /\ \E s \in Steps :
          /\ loaded[s] = "failed"
          /\ s \in launched
          /\ state[s] = "succeeded"
          /\ \E d \in descendants(s) : loaded[d] = "depFailed" /\ d \in launched

\* C8: a flow-wide clean is idempotent.  After a flow-wide clean no step is
\* dirty, and a second flow-wide clean changes no state and no prevState.
C8_CleanIdempotent ==
    /\ mainpc \in {"cleaned", "recleaned"} => \A s \in Steps : ~isDirty[s]
    /\ mainpc = "recleaned" =>
          state = before.state /\ prevState = before.prevState

C8_Witness ==
    /\ mainpc = "recleaned"
    /\ \E s \in Steps : prevState[s] # Undefined

\* C9: clean never changes the state of a step that is failed, disabled,
\* running or succeeded, whatever its dependencies' states and whether or
\* not it is dirty.
C9_CleanKeepsAuthoritative ==
    mainpc \in {"cleaned", "recleaned"} =>
        \A s \in Steps :
            before.state[s] \in {"failed", "disabled", "running", "succeeded"}
                => state[s] = before.state[s]

C9_Witness ==
    /\ mainpc = "cleaned"
    /\ \E s \in Steps, d \in Steps :
          /\ d \in deps(s)
          /\ before.state[s] = "succeeded"
          /\ before.isDirty[s]
          /\ state[s] = "succeeded"
          /\ state[d] = "failed"

\* C10: dependency-failed propagates transitively in one flow-wide clean.
\* If a step is failed and all its descendants are dirty and none,
\* waitingForRun, waitingForDep or depFailed, every descendant is depFailed
\* after the clean.
C10_DepFailedTransitive ==
    mainpc = "cleaned" =>
        \A f \in Steps :
            (/\ before.state[f] = "failed"
             /\ \A d \in descendants(f) :
                   /\ before.isDirty[d]
                   /\ before.state[d] \in
                        {"none", "waitingForRun", "waitingForDep", "depFailed"})
                => \A d \in descendants(f) : state[d] = "depFailed"

C10_Witness ==
    /\ mainpc = "cleaned"
    /\ flow = ChainFlow
    /\ before.state = [a |-> "failed", b |-> "waitingForDep", c |-> "none"]
    /\ before.isDirty = [a |-> FALSE, b |-> TRUE, c |-> TRUE]
    /\ state = [a |-> "failed", b |-> "depFailed", c |-> "depFailed"]

\* C11: whenever clean takes a step that has dependencies into
\* waitingForRun, every one of its dependencies is succeeded; in the diamond
\* (d needs b and c) one succeeded dependency is not enough.
C11_ReadyOnlyWhenAllDepsSucceeded ==
    mainpc \in {"cleaned", "recleaned"} =>
        \A s \in Steps :
            (/\ deps(s) # {}
             /\ before.state[s] # "waitingForRun"
             /\ state[s] = "waitingForRun")
                => \A d \in deps(s) : state[d] = "succeeded"

C11_Witness ==
    /\ mainpc = "cleaned"
    /\ flow = DiamondFlow
    /\ before.state["d"] = "none"
    /\ state["d"] = "waitingForRun"
    /\ state["b"] = "succeeded"
    /\ state["c"] = "succeeded"

\* the launches of step s that have put their StepRun into the history
Launches(s) ==
    clock - Cardinality({i \in DOMAIN tasks :
                            tasks[i].step = s /\ tasks[i].pc = "ensureDir"})

\* no launch of step s is between its unshift and the end of its eviction
Evicted(s) == \A i \in DOMAIN tasks : tasks[i].step = s => tasks[i].pc # "rm"

Min(x, y) == IF x < y THEN x ELSE y

\* C12: after N launches of a step from an empty history, once the launch
\* has finished its eviction, the history holds exactly min(N, 10) StepRuns,
\* the most recent ones, most recent first (launches are numbered by their
\* start time).
C12_Retention ==
    \A s \in Steps :
        Evicted(s) =>
            /\ Len(runs[s]) = Min(Launches(s), MAX_RUNS_TO_RETAIN)
            /\ \A k \in DOMAIN runs[s] :
                    runs[s][k].start = Launches(s) - k + 1


\* a reset/set/disable/enable invocation has just run to its end, or has
\* just ended in an Error
Finished == invocations' # invocations /\ exitAt' = "done"

\* the step names among the arguments of a command line
stepArgs(cmd) ==
    IF cmd.name = "set" THEN (IF cmd.args = <<>> THEN <<>> ELSE Tail(cmd.args))
    ELSE IF cmd.name = "reset" /\ cmd.args # <<>> /\ Head(cmd.args) = "--only"
        THEN Tail(cmd.args)
    ELSE cmd.args

\* how often step s is among the steps a list of names resolves to
Occurrences(names, s) ==
    Cardinality({i \in DOMAIN resolveSteps(names).steps :
                    resolveSteps(names).steps[i] = s})

\* C13: Flow.update is an upsert keyed by the current step names.  When a
\* command has saved, the snapshot entry of every name that is not a step of
\* the flow is what it was, and the entry of every step is the step's
\* state, prevState and run history.
C13_UpdateIsUpsert ==
    [][Finished =>
        /\ DOMAIN disk' = DOMAIN disk \cup Steps
        /\ \A n \in DOMAIN disk \ Steps : disk'[n] = disk[n]
        /\ \A s \in Steps :
              disk'[s] = [state |-> state'[s], prevState |-> prevState'[s],
                          runs |-> runs'[s]]]_vars

C13_Witness ==
    /\ exitAt = "done"
    /\ "old" \in DOMAIN disk
    /\ disk["old"] = OldSnapshot["old"]
    /\ disk["a"].state = "disabled"

C19_EnableReenables ==
    [][(Finished /\ command'.name = "enable") =>
        \A s \in Steps :
            Occurrences(command'.args, s) > 0 => state'[s] # "disabled"]_vars

\* C20: when a name on the command line of reset, set, disable or enable
\* matches no step and no tag, the command ends in an error, no step has
\* been transitioned and the snapshot has not been written.
C20_UnknownNameAborts ==
    [][(/\ invocations' # invocations
        /\ \E i \in DOMAIN stepArgs(command') :
              found(stepArgs(command')[i]) = <<>>) =>
            /\ exitAt' = "error"
            /\ exitCode' = "1"
            /\ error' # <<>>
            /\ disk' = disk
            /\ state' = loadFlow(disk).state
            /\ prevState' = loadFlow(disk).prevState]_vars

C20_Witness ==
    /\ exitAt = "error"
    /\ command = [name |-> "disable", args |-> <<"a", "zz">>]
    /\ error = <<"couldn't find any steps for", "zz">>
    /\ disk = DisabledSnapshot
    /\ invocations = 2
    /\ state["a"] = "disabled"

\* the closure of a set of steps under a dependency relation
RECURSIVE Closure(_, _)
Closure(S, depsOf) ==
    LET more == S \cup UNION {depsOf[x] : x \in S}
    IN  IF more = S THEN S ELSE Closure(more, depsOf)

\* the transitive closure of the declared dependencies of a step of the flow
TransitiveDeps(s) == Closure(deps(s), [x \in Steps |-> deps(x)])

\* C14: in every constructed flow, s is a descendant of a exactly when a is
\* an ancestor of s, the ancestors of s are the transitive closure of the
\* dependencies s declares, and s is not among them.
C14_AncestorsDescendants ==
    mainpc = "constructed" =>
        \A s \in Steps :
            /\ \A a \in Steps : s \in descendants(a) <=> a \in ancestors(s)
            /\ ancestors(s) = TransitiveDeps(s)
            /\ s \notin ancestors(s)

C14_Witness ==
    /\ mainpc = "constructed"
    /\ flow.deps = [a |-> <<>>, b |-> <<"a">>, c |-> <<"b">>]
    /\ ancestors("c") = {"a", "b"}
    /\ descendants("a") = {"b", "c"}

\* the workflow file as written: the declared steps a step's deps array
\* names, the (step, name) pairs that name no step, the steps whose deps is
\* not an array, and whether the dependency graph has a cycle
tomlDeps(s) ==
    {n \in Range(flowToml.deps[s].names) : n \in Range(flowToml.steps)}

MissingDeps ==
    {<<s, n>> \in Range(flowToml.steps) \X Range(DepNames) :
        n \in Range(flowToml.deps[s].names) /\ n \notin Range(flowToml.steps)}

NotArrays == {s \in Range(flowToml.steps) : flowToml.deps[s].kind # "array"}

Cyclic ==
    \E s \in Range(flowToml.steps) :
        s \in Closure(tomlDeps(s), [x \in Range(flowToml.steps) |-> tomlDeps(x)])

\* the Error has the entry e
HasEntry(e) ==
    \E i \in DOMAIN error.errors :
        Len(error.errors[i]) = Len(e) /\ error.errors[i] = e

\* a path that ends in a step it already holds, along dependency edges from
\* there on: every step of that cycle is named
NamesCycle(path) ==
    \E j \in 1..(Len(path) - 1) :
        /\ path[j] = path[Len(path)]
        /\ \A k \in j..(Len(path) - 1) : path[k + 1] \in tomlDeps(path[k])

\* the Error has the entry of the cycles, and one of its paths names a cycle
ReportsCycle ==
    \E i \in DOMAIN error.errors :
        /\ error.errors[i][1] = "Cyclical dependencies found"
        /\ \E k \in DOMAIN error.errors[i][2] : NamesCycle(error.errors[i][2][k])

\* C15: construction on a dependency graph that has a cycle (a workflow file
\* whose deps are all arrays, with no unexpected key) ends, fails with an
\* Error that names every step of a cycle, and returns no Flow.
C15_CycleFails ==
    (/\ mainpc # "loadFlow"
     /\ flowToml.unknown = {}
     /\ NotArrays = {}
     /\ Cyclic)
        => /\ mainpc = "idle"
           /\ exitCode = "1"
           /\ DOMAIN flow = {}
           /\ error.name = "Error"
           /\ ReportsCycle

C15_Witness ==
    /\ mainpc = "idle"
    /\ exitAt = "error"
    /\ flowToml.unknown = {}
    /\ flowToml.deps["a"] = [kind |-> "array", names |-> <<"c">>]
    /\ flowToml.deps["b"] = [kind |-> "array", names |-> <<"a">>]
    /\ flowToml.deps["c"] = [kind |-> "array", names |-> <<"b">>]
    /\ error.name = "Error"
    /\ Len(error.errors) = 1
    /\ error.errors[1][1] = "Cyclical dependencies found"

\* C16: dependency errors are collected.  Construction on a workflow file
\* (no unexpected key) with unresolved dependency names, deps that are not
\* arrays or cycles fails with one Error that has an entry for every
\* unresolved (step, name) pair, for every deps that is not an array, and
\* for the cycles.
C16_DepErrorsCollected ==
    (/\ mainpc # "loadFlow"
     /\ flowToml.unknown = {}
     /\ (MissingDeps # {} \/ NotArrays # {} \/ Cyclic))
        => /\ mainpc = "idle"
           /\ error.name = "Error"
           /\ \A p \in MissingDeps :
                 HasEntry(<<"Dependency not found", p[1], p[2]>>)
           /\ \A s \in NotArrays : HasEntry(<<"step.deps must be an array", s>>)
           /\ Cyclic => ReportsCycle

\* C17: unexpected keys are aggregated with the other configuration errors.
\* The Error of a workflow file with an unexpected key and an unresolved
\* dependency name or a cycle reports the key and the dependency errors.
C17_UnknownKeysAggregated ==
    (/\ mainpc # "loadFlow"
     /\ flowToml.unknown # {}
     /\ NotArrays = {}
     /\ (MissingDeps # {} \/ Cyclic))
        => /\ mainpc = "idle"
           /\ error.name = "Error"
           /\ \A w \in flowToml.unknown : HasEntry(<<"Unexpected key(s)", w>>)
           /\ \A p \in MissingDeps :
                 HasEntry(<<"Dependency not found", p[1], p[2]>>)
           /\ Cyclic => ReportsCycle

\* a `set` command line has run to its end: its target state and the steps
\* its names resolve to
SetDone == exitAt = "done" /\ command.name = "set"

SetTarget == Head(command.args)

SetSteps == Range(resolveSteps(Tail(command.args)).steps)

ResetDone ==
    /\ Finished
    /\ command'.name = "reset"
    /\ ~(command'.args # <<>> /\ Head(command'.args) = "--only")

\* the steps a reset without --only is about: all steps when no name is
\* given, else the named steps and the steps that depend on them, directly
\* or through other steps
ResetScope(args) ==
    IF args = <<>> THEN Steps
    ELSE LET named == Range(resolveSteps(args).steps)
         IN  named \cup {d \in Steps : TransitiveDeps(d) \cap named # {}}

\* C22: reset without --only transitions every named step and every
\* transitive descendant to none and re-propagates: afterwards none of them
\* is succeeded, failed, disabled or running.  With no names every step ends
\* waitingForRun (no dependencies) or waitingForDep (otherwise).  The run
\* histories are kept.
C22_ResetCascades ==
    [][ResetDone =>
        /\ \A s \in ResetScope(command'.args) :
              /\ before'.state[s] = "none"
              /\ state'[s] \notin {"succeeded", "failed", "disabled", "running"}
              /\ disk'[s].state = state'[s]
        /\ \A s \in Steps \ ResetScope(command'.args) :
              before'.state[s] = loadFlow(disk).state[s]
        /\ command'.args = <<>> =>
              \A s \in Steps :
                  state'[s] = IF deps(s) = {} THEN "waitingForRun"
                              ELSE "waitingForDep"
        /\ \A s \in Steps : disk'[s].runs = Step_runs(disk)[s]]_vars

C22_Witness ==
    /\ exitAt = "done"
    /\ command = [name |-> "reset", args |-> <<"a">>]
    /\ flow = ChainFlow
    /\ loaded = [a |-> "succeeded", b |-> "failed", c |-> "depFailed"]
    /\ state = [a |-> "waitingForRun", b |-> "waitingForDep",
                c |-> "waitingForDep"]
    /\ disk["a"].runs = <<[start |-> 1, exit |-> "ok"]>>
    /\ disk["b"].runs = <<[start |-> 2, exit |-> "fail"]>>

\* the snapshot snap records the result of task i: the StepRun of the task
\* has its exit code in the history of the task's step
Recorded(snap, i) ==
    /\ tasks[i].step \in DOMAIN snap
    /\ \E k \in DOMAIN snap[tasks[i].step].runs :
          /\ snap[tasks[i].step].runs[k].start = tasks[i].run
          /\ snap[tasks[i].step].runs[k].exit \in {"ok", "fail"}

\* the completion handler of task i calls runLoop in this step
CallsRunLoop(i) ==
    /\ i \in DOMAIN tasks
    /\ tasks[i].pc = "save3"
    /\ tasks'[i].pc = "done"

\* C23: while cmdRun waits, steps are launched only by a completion handler
\* at its call of runLoop, and at that call the snapshot on disk records the
\* result of the handler's own step: a step is never launched by a handler
\* before the result of the handler's step is in the snapshot.
C23_PersistedBeforeRunLoop ==
    [][(mainpc = "wait" /\ tasks' # <<>> /\ Len(tasks') > Len(tasks)) =>
        \E i \in DOMAIN tasks :
            /\ CallsRunLoop(i)
            /\ Recorded(disk', i)]_vars

C23_Witness ==
    /\ flow = ChainFlow
    /\ mainpc = "wait"
    /\ Len(tasks) = 2
    /\ tasks[1].step = "a"
    /\ tasks[1].pc = "done"
    /\ tasks[2].step = "b"
    /\ tasks[2].pc = "ensureDir"
    /\ disk["a"].state = "succeeded"
    /\ disk["a"].runs = <<[start |-> 1, exit |-> "ok"]>>
    /\ disk["b"].state = "waitingForRun"

\* the Context.save() calls of runStep tasks whose write is in flight
WritingTasks == {i \in DOMAIN tasks : tasks[i].wbuf # <<>>}

\* C24: within one invocation at most one Context.save() write is in flight
\* at any time: the writes of the runStep tasks and the write of the save
\* cmdRun issues after its reset of the failed steps.
C24_SerialWrites ==
    mainpc = "wait" =>
        Cardinality(WritingTasks) + (IF mainWrite # <<>> THEN 1 ELSE 0) <= 1

\* the snapshot snap records the launch of task i: the task's step is
\* running and the task's StepRun is at the front of the step's history
LaunchRecorded(snap, i) ==
    /\ tasks[i].step \in DOMAIN snap
    /\ snap[tasks[i].step].state = "running"
    /\ snap[tasks[i].step].runs # <<>>
    /\ snap[tasks[i].step].runs[1] = [start |-> tasks[i].run, exit |-> "none"]

ProcessExits(i) ==
    /\ i \in DOMAIN tasks
    /\ i \in DOMAIN tasks'
    /\ tasks[i].pc = "proc"
    /\ tasks'[i].pc = "save2"

\* C26: when the process of a launch exits, the newest StepRun of the step
\* is the one of this launch and gets the exit code and the end time (the
\* exit field of the model); the step goes to succeeded if the runner
\* reports success (exit "ok") and to failed otherwise.
C26_ExitRecordedOnNewestRun ==
    [][\A i \in DOMAIN tasks :
        ProcessExits(i) =>
            LET s == tasks[i].step
            IN  /\ runs'[s] # <<>>
                /\ runs'[s][1].start = tasks[i].run
                /\ runs[s][1].exit = "none"
                /\ runs'[s][1].exit \in {"ok", "fail"}
                /\ state'[s] = IF runs'[s][1].exit = "ok" THEN "succeeded"
                               ELSE "failed"]_vars

\* C27: a step never has two runStep tasks in flight at once: of two tasks
\* of one invocation for the same step, one has ended before the other was
\* pushed (a later task of the step has the later start number).
C27_OneTaskPerReadiness ==
    mainpc = "wait" =>
        \A i, j \in DOMAIN tasks :
            (i < j /\ tasks[i].step = tasks[j].step) => tasks[i].pc = "done"

\* a reset, set, disable or enable command has run to its end
CommandDone == mainpc = "idle" /\ exitAt = "done"

\* C28: after any sequence of commands, each with its flow-wide clean, no
\* step is waitingForRun while one of its dependencies is not succeeded.
C28_StatesAgreeWithDeps ==
    CommandDone =>
        \A s \in Steps :
            state[s] = "waitingForRun" /\ disk[s].state = "waitingForRun"
                => \A d \in deps(s) : state[d] = "succeeded"

\* the process is a `run` invocation, or the last process was one
RunInvocation ==
    mainpc = "wait" \/ exitAt \in {"args", "nothing", "end", "kill"}

\* C29: a `run` invocation never launches a step that was disabled when it
\* started and never changes its state.
C29_RunKeepsDisabled ==
    RunInvocation =>
        \A s \in Steps :
            loaded[s] = "disabled" => state[s] = "disabled" /\ s \notin launched

\* the visiting orders of the steps of the flow
VisitingOrders ==
    {o \in [1..Cardinality(Steps) -> Steps] :
        \A i, j \in DOMAIN o : o[i] = o[j] => i = j}

\* Step.clean on every step, in the order o
RECURSIVE cleanInOrder(_, _, _)
cleanInOrder(m, o, i) ==
    IF i > Len(o) THEN m
    ELSE cleanInOrder(Step_clean(m, o[i]), o, i + 1)

\* C30: the result of a flow-wide clean does not depend on the order in
\* which the steps are visited: from every assignment of states and dirty
\* flags, every visiting order leaves every step with the state, prevState
\* and dirty flag that Flow.clean() leaves.
C30_CleanOrderIndependent ==
    mainpc = "cleaned" =>
        \A o \in VisitingOrders :
            LET m == cleanInOrder(before, o, 1)
            IN  /\ m.state = state
                /\ m.prevState = prevState
                /\ m.isDirty = isDirty

C30_Witness ==
    /\ mainpc = "cleaned"
    /\ flow = DiamondFlow
    /\ \A s \in Steps : before.isDirty[s]
    /\ before.state = [a |-> "none", b |-> "waitingForRun", c |-> "none",
                       d |-> "depFailed"]
    /\ state = [a |-> "waitingForRun", b |-> "waitingForDep",
                c |-> "waitingForDep", d |-> "waitingForDep"]

\* the states of a dependency that stop a step: a failure, or work that is
\* not finished
FailedStates == {"failed", "depFailed"}

UnfinishedStates == {"running", "waitingForRun", "waitingForDep", "disabled"}

\* C31: the cases of clean are applied in priority order, first match wins.
\* A dirty step that is none, waitingForRun, waitingForDep or depFailed and
\* has, when clean decides on it, a failed or dependency-failed dependency
\* and a running, waitingForRun, waitingForDep or disabled dependency is
\* depFailed after the clean, not waitingForDep.
C31_FailedDepWins ==
    mainpc = "cleaned" =>
        \A s \in Steps :
            (/\ before.isDirty[s]
             /\ ~keepsState(before.state[s])
             /\ \E d \in deps(s) : state[d] \in FailedStates
             /\ \E d \in deps(s) : state[d] \in UnfinishedStates)
                => state[s] = "depFailed"

C31_Witness ==
    /\ mainpc = "cleaned"
    /\ flow = JoinFlow
    /\ before.isDirty["c"]
    /\ before.state = [a |-> "failed", b |-> "running", c |-> "waitingForDep"]
    /\ state = [a |-> "failed", b |-> "running", c |-> "depFailed"]
    /\ prevState["c"] = "waitingForDep"

\* a `disable` command line that names step s has just run to its end
DisableDone(s) ==
    /\ Finished
    /\ command'.name = "disable"
    /\ Occurrences(command'.args, s) > 0

\* ... and the step was disabled already when the command loaded it: no
\* enable since the disable before
SecondDisable(s) == DisableDone(s) /\ loadFlow(disk).state[s] = "disabled"

\* C32 as claimed: a second consecutive disable of a step overwrites the
\* prior state that prevState remembers.
C32_SecondDisableOverwrites ==
    [][\A s \in Steps :
        SecondDisable(s) => prevState'[s] # loadFlow(disk).prevState[s]]_vars

\* C32 as amended: the undo is single-level, prevState is the state before
\* the last transition.  The first disable of a step records the state the
\* step had; a second consecutive disable is no transition and leaves
\* prevState as it is; the enable that follows transitions the step to that
\* state, and the step keeps it if it is succeeded, failed or running.
C32_SecondDisableKeepsPrevState ==
    [][\A s \in Steps :
        LET m0 == loadFlow(disk)
        IN  /\ (DisableDone(s) /\ m0.state[s] # "disabled") =>
                    /\ state'[s] = "disabled"
                    /\ prevState'[s] = m0.state[s]
            /\ SecondDisable(s) =>
                    /\ state'[s] = "disabled"
                    /\ prevState'[s] = m0.prevState[s]
            /\ (/\ Finished
                /\ command'.name = "enable"
                /\ Occurrences(command'.args, s) = 1
                /\ m0.state[s] = "disabled"
                /\ m0.prevState[s] # Undefined) =>
                    /\ before'.state[s] = m0.prevState[s]
                    /\ before'.prevState[s] = "disabled"
                    /\ m0.prevState[s] \in {"succeeded", "failed", "running"}
                          => state'[s] = m0.prevState[s]]_vars

C32_Witness ==
    /\ exitAt = "done"
    /\ invocations = 2
    /\ command = [name |-> "disable", args |-> <<"a">>]
    /\ loaded["a"] = "disabled"
    /\ state["a"] = "disabled"
    /\ prevState["a"] = "succeeded"
    /\ disk["a"].prevState = "succeeded"
    /\ disk["b"].state = "failed"

\* a `reset --only` command line has just run to its end
ResetOnlyDone ==
    /\ Finished
    /\ command'.name = "reset"
    /\ command'.args # <<>>
    /\ Head(command'.args) = "--only"

\* the steps a `reset --only` names: all steps when no name is given
ResetOnlyNamed(args) ==
    IF Tail(args) = <<>> THEN Steps ELSE Range(resolveSteps(Tail(args)).steps)

\* C33: reset --only changes only the named steps.  Each named step is
\* transitioned to none and re-propagated (it ends none of succeeded,
\* failed, disabled, running).  Every other step, the descendants of the
\* named steps included, has the state and prevState the command loaded, and
\* its snapshot entry (state, prevState, run history) is the one it had; a
\* step the snapshot had no entry for gets the entry of the step as loaded.
C33_ResetOnlyFrame ==
    [][ResetOnlyDone =>
        LET m0 == loadFlow(disk)
            named == ResetOnlyNamed(command'.args)
        IN  /\ \A s \in named :
                  /\ before'.state[s] = "none"
                  /\ state'[s] \notin {"succeeded", "failed", "disabled",
                                       "running", "none"}
                  /\ disk'[s].state = state'[s]
                  /\ disk'[s].runs = Step_runs(disk)[s]
            /\ \A s \in Steps \ named :
                  /\ state'[s] = m0.state[s]
                  /\ prevState'[s] = m0.prevState[s]
                  /\ s \in DOMAIN disk => disk'[s] = disk[s]
                  /\ s \notin DOMAIN disk =>
                        disk'[s] = [state |-> m0.state[s],
                                    prevState |-> m0.prevState[s],
                                    runs |-> <<>>]]_vars

C33_Witness ==
    /\ exitAt = "done"
    /\ command = [name |-> "reset", args |-> <<"--only", "a">>]
    /\ flow = ChainFlow
    /\ loaded = [a |-> "succeeded", b |-> "failed", c |-> "depFailed"]
    /\ state = [a |-> "waitingForRun", b |-> "failed", c |-> "depFailed"]
    /\ prevState["a"] = "none"
    /\ disk["b"] = RanSnapshot["b"]
    /\ disk["c"] = RanSnapshot["c"]
    /\ disk["a"].runs = RanSnapshot["a"].runs

\* C34: a `run` of a flow that has no snapshot terminates (every await
\* returns, every spawned process exits), and when it has ended every step
\* is succeeded, failed or depFailed, and a step is depFailed exactly when
\* one of its ancestors is failed.
C34_RunSettles ==
    /\ (mainpc = "wait") ~> RunEnded
    /\ [](RunEnded =>
            \A s \in Steps :
                /\ state[s] \in Settled
                /\ state[s] = "depFailed"
                      <=> \E x \in ancestors(s) : state[x] = "failed")

\* the snapshot snap has no step of the flow in state none
NoNone(snap) == \A s \in Steps \cap DOMAIN snap : snap[s].state # "none"

\* C35: a step in state none is dirty whenever a flow-wide clean starts, so
\* after the clean no step is none: once an invocation has loaded the flow
\* no step is none in memory, and no snapshot that run, reset, set, disable
\* or enable writes (on disk, or in a write in flight) has a step of the flow
\* in state none.
C35_NoNoneAfterClean ==
    /\ \A s \in Steps : state[s] = "none" => isDirty[s]
    /\ before # <<>> =>
          \A s \in Steps : before.state[s] = "none" => before.isDirty[s]
    /\ invocations >= 1 => \A s \in Steps : state[s] # "none"
    /\ NoNone(disk)
    /\ NoNone(ctxState)
    /\ \A i \in DOMAIN mainWrite : NoNone(mainWrite[i])
    /\ \A i \in DOMAIN tasks : NoNone(tasks[i].wbuf)

C35_Witness ==
    /\ exitAt = "done"
    /\ command = [name |-> "set", args |-> <<"none", "g">>]
    /\ loaded = [a |-> "succeeded", b |-> "failed", c |-> "depFailed"]
    /\ before.state = [a |-> "succeeded", b |-> "none", c |-> "none"]
    /\ before.isDirty = [a |-> FALSE, b |-> TRUE, c |-> TRUE]
    /\ state = [a |-> "succeeded", b |-> "waitingForRun", c |-> "waitingForDep"]
    /\ disk["b"].state = "waitingForRun"
    /\ disk["c"].state = "waitingForDep"

\* a `run` invocation has exited by itself: at "Nothing to do", or after its
\* wait loop
RunReturned == mainpc = "idle" /\ exitAt \in {"nothing", "end"}

\* C36: every state change made by run is persisted before the invocation
\* exits: when run has exited, every step whose state is not the one the
\* invocation loaded has that state in the snapshot on disk; so when run
\* has reset the failed steps and their descendants and found nothing
\* waitingForRun, the snapshot records the reset.
C36_RunPersistsChanges ==
    RunReturned =>
        \A s \in Steps :
            state[s] # loaded[s] =>
                s \in DOMAIN disk /\ disk[s].state = state[s]
====
